---- MODULE Spec2Model ----
(***************************************************************************)
(* Narrative Cards (src/app.js): the DataStore card repository, the form   *)
(* and delete handlers of the UIController that write to it, and the       *)
(* export / import functions.                                              *)
(*                                                                         *)
(* A card is a JavaScript object: it is modelled as a function from the    *)
(* names of the fields it has to their values, so that an absent field is  *)
(* a name outside DOMAIN and the object spread {...a, ...b} is Merge.      *)
(* Ids are integers: a positive id is a string produced by generateId in   *)
(* this browser, a negative id is any other non-empty string (an id read   *)
(* from a document written elsewhere), and 0 is the empty string, the one  *)
(* falsy id.  Names are strings compared by localeCompare.  The free-text  *)
(* fields are represented by description.                                  *)
(***************************************************************************)
EXTENDS Integers, Sequences, FiniteSets, TLC

VARIABLES
    cards,              \* DataStore.cards
    navigationHistory,  \* DataStore.navigationHistory
    idCount,            \* number of ids generateId has produced so far
    now,                \* the clock read by new Date() / Date.now()
    currentView,        \* UIController.currentView
    currentFilter,      \* UIController.currentFilter
    currentCard,        \* id of UIController.currentCard, NoCard when null
    editingCardId,      \* UIController.editingCardId, NoCard when null
    selectedType,       \* UIController.selectedType, NoType when null
    selected,           \* the three tag containers of the form
    file,               \* the document last written by exportCards
    reading,            \* the imports triggered: the document of each and its outcome
    last                \* the last operation: its inputs and its result

vars == <<cards, navigationHistory, idCount, now, currentView, currentFilter, currentCard,
          editingCardId, selectedType, selected, file, reading, last>>

uiVars == <<currentView, currentFilter, currentCard, editingCardId, selectedType, selected>>

formVars == <<editingCardId, selectedType, selected>>

-----------------------------------------------------------------------------
(* Bounds *)

MaxCards == 2   \* createCard is called while fewer cards were created and are held
MaxRepo  == 3   \* a document is imported while the collection stays within this size
MaxIds   == 4   \* ids generated in one run
MaxTime  == 1   \* ticks of the clock
MaxNav   == 1   \* entries of the navigation history while cards are opened
MaxPush  == 25  \* calls of pushToHistory on the history alone
MaxReads == 2   \* imports triggered in one run whose read ends later
MaxPop   == 2   \* pushed ids the history may miss when getLastFromHistory is called

-----------------------------------------------------------------------------
(* Values *)

NoCard == 0
NoType == "null"
Types  == {"evento", "local", "personagem"}
Names  == {"Ana", "Bia"}

RefFields == {"adjacentLocations", "presentCharacters", "bonds"}

Range(s) == {s[i] : i \in 1..Len(s)}

\* {...a, ...b}
Merge(a, b) == [f \in (DOMAIN a) \cup (DOMAIN b) |-> IF f \in DOMAIN b THEN b[f] ELSE a[f]]

-----------------------------------------------------------------------------
(* DataStore *)

\* Another call that returns an id already handed out.
generateIdRepeat(n) == 1

\* 'card_' + Date.now() + '_' + random suffix: the n+1st call returns a string
\* that no earlier call returned.
generateId(n) == n + 1

createCard(cs, cardData, n, t) ==
    Append(cs, Merge([id |-> generateId(n), createdAt |-> t, updatedAt |-> t], cardData))

\* Array.prototype.findIndex(c => c.id === id), 0 for -1
findIndex(cs, id) ==
    IF \E i \in 1..Len(cs) : cs[i].id = id
    THEN CHOOSE i \in 1..Len(cs) : cs[i].id = id /\ \A j \in 1..(i-1) : cs[j].id # id
    ELSE 0

\* updateCard that replaces the stored card instead of merging into it.
updateCardReplace(cs, id, cardData, t) ==
    LET index == findIndex(cs, id) IN
    IF index # 0
    THEN [cs EXCEPT ![index] = Merge(cardData, [id |-> cs[index].id, updatedAt |-> t])]
    ELSE cs

\* updateCard that stores cardData as a new card when no card has the id.
updateCardUpsert(cs, id, cardData, t) ==
    LET index == findIndex(cs, id) IN
    IF index # 0
    THEN [cs EXCEPT ![index] = Merge(Merge(cs[index], cardData), [updatedAt |-> t])]
    ELSE Append(cs, Merge(cardData, [id |-> id, updatedAt |-> t]))

updateCard(cs, id, cardData, t) ==
    LET index == findIndex(cs, id) IN
    IF index # 0
    THEN [cs EXCEPT ![index] = Merge(Merge(cs[index], cardData), [updatedAt |-> t])]
    ELSE cs

\* list.filter(x => x !== id)
without(list, id) == SelectSeq(list, LAMBDA x : x # id)

\* the body of the forEach of deleteCard
stripReferences(card, id) ==
    [f \in DOMAIN card |-> IF f \in RefFields THEN without(card[f], id) ELSE card[f]]

\* this.cards.splice(index, 1)
splice(cs, index) == SubSeq(cs, 1, index - 1) \o SubSeq(cs, index + 1, Len(cs))

\* a deleteCard that removes every card with the id.
deleteCardEvery(cs, id) ==
    SelectSeq([i \in 1..Len(cs) |-> stripReferences(cs[i], id)], LAMBDA c : c.id # id)

deleteCard(cs, id) ==
    LET index == findIndex(cs, id) IN
    IF index # 0
    THEN splice([i \in 1..Len(cs) |-> stripReferences(cs[i], id)], index)
    ELSE cs

\* Array.prototype.find(c => c.id === id): <<the card>>, or <<>> for undefined
getCard(cs, id) ==
    LET index == findIndex(cs, id) IN
    IF index # 0 THEN <<cs[index]>> ELSE <<>>

getCardsByType(cs, type) == SelectSeq(cs, LAMBDA c : c.type = type)

\* the characters of the strings that are searched and searched for
letters(s) ==
    CASE s = "Ana" -> <<"A", "n", "a">>
      [] s = "Bia" -> <<"B", "i", "a">>
      [] s = "AN" -> <<"A", "N">>
      [] s = "bi" -> <<"b", "i">>
      [] s = "x" -> <<"x">>
      [] OTHER -> <<>>

\* String.prototype.toLowerCase, one character
lower(ch) ==
    CASE ch = "A" -> "a"
      [] ch = "B" -> "b"
      [] ch = "N" -> "n"
      [] OTHER -> ch

\* String.prototype.toLowerCase
toLowerCase(s) == [i \in 1..Len(s) |-> lower(s[i])]

\* String.prototype.includes
includes(s, q) == \E i \in 1..(Len(s) - Len(q) + 1) : SubSeq(s, i, i + Len(q) - 1) = q

\* searchCards that lowers the query and not the text of the cards.
searchCardsLowerQueryOnly(cs, query) ==
    LET lowerQuery == toLowerCase(letters(query)) IN
    SelectSeq(cs, LAMBDA card :
        \/ includes(letters(card.name), lowerQuery)
        \/ /\ "description" \in DOMAIN card /\ card.description # ""
           /\ includes(letters(card.description), lowerQuery))

\* searchCards(query); card.description && ... is false for an absent and for
\* an empty description
searchCards(cs, query) ==
    LET lowerQuery == toLowerCase(letters(query)) IN
    SelectSeq(cs, LAMBDA card :
        \/ includes(toLowerCase(letters(card.name)), lowerQuery)
        \/ /\ "description" \in DOMAIN card /\ card.description # ""
           /\ includes(toLowerCase(letters(card.description)), lowerQuery))

HistoryCap == 20

\* pushToHistory that drops the id just pushed when the history is full.
pushToHistoryKeepOldest(h, cardId) ==
    LET pushed == Append(h, cardId) IN
    IF Len(pushed) > HistoryCap THEN SubSeq(pushed, 1, HistoryCap) ELSE pushed

\* pushToHistory(cardId)
pushToHistory(h, cardId) ==
    LET pushed == Append(h, cardId) IN
    IF Len(pushed) > HistoryCap THEN Tail(pushed) ELSE pushed

\* a getLastFromHistory that takes the oldest id (shift) instead of the newest.
getLastFromHistoryShift(h) == IF h = <<>> THEN h ELSE Tail(h)

\* getLastFromHistory(): the history after navigationHistory.pop()
getLastFromHistory(h) == IF h = <<>> THEN h ELSE SubSeq(h, 1, Len(h) - 1)

-----------------------------------------------------------------------------
(* UIController.renderCardsList: what it does to the array it is given *)

Undefined == -1

\* const typeOrder = { 'evento': 0, 'local': 1, 'personagem': 2 }
typeOrder(t) ==
    CASE t = "evento" -> 0
      [] t = "local" -> 1
      [] t = "personagem" -> 2
      [] OTHER -> Undefined

\* (v || 99)
or99(v) == IF v = 0 \/ v = Undefined THEN 99 ELSE v

\* a.localeCompare(b) on Names
nameIndex(n) == CASE n = "Ana" -> 1 [] n = "Bia" -> 2 [] OTHER -> 3

localeCompare(a, b) ==
    IF nameIndex(a) < nameIndex(b) THEN -1 ELSE IF nameIndex(a) > nameIndex(b) THEN 1 ELSE 0

\* the comparator of filteredCards.sort
compare(a, b) ==
    LET typeCompare == or99(typeOrder(a.type)) - or99(typeOrder(b.type)) IN
    IF typeCompare # 0 THEN typeCompare ELSE localeCompare(a.name, b.name)

\* Array.prototype.sort is stable: x goes after every element that does not
\* compare greater than it.
insert(front, x) ==
    LET k == Cardinality({i \in 1..Len(front) : compare(front[i], x) <= 0})
    IN SubSeq(front, 1, k) \o <<x>> \o SubSeq(front, k + 1, Len(front))

RECURSIVE sort(_)
sort(s) ==
    IF s = <<>> THEN <<>>
    ELSE CHOOSE r \in {insert(front, x) : front \in {sort(SubSeq(s, 1, Len(s) - 1))},
                                          x \in {s[Len(s)]}} : TRUE

\* renderCardsList(): with the filter 'all' filteredCards is the array of the
\* store itself and sort() sorts it in place; any other filter sorts a copy.
renderCardsList(cs, filter) == IF filter = "all" THEN sort(cs) ELSE cs

-----------------------------------------------------------------------------
(* Documents *)

(* A document is the text of a file.  shape says how far the text gets       *)
(* through JSON.parse and the check of data.cards; items is data.cards (for  *)
(* "notArray", the values of the object found there).  An item is a card     *)
(* object obj plus nonArray, the reference fields of it whose value is       *)
(* truthy and not an array (their value is left out of obj).                 *)
Item(obj) == [obj |-> obj, nonArray |-> {}]

Document(shape, items, exported, t) ==
    [version |-> "1.0", exportDate |-> t, shape |-> shape, items |-> items, exported |-> exported]

NoFile == Document("none", <<>>, FALSE, 0)

\* two locations: a forward reference, a reference to an id outside the
\* document, an empty id; the second sorts before the first
DocRefs == Document("array",
    << Item([id |-> -1, type |-> "local", name |-> "Bia", description |-> "",
             adjacentLocations |-> <<-2, -3, 0>>, presentCharacters |-> <<>>]),
       Item([id |-> -2, type |-> "local", name |-> "Ana", description |-> "",
             adjacentLocations |-> <<-1>>]) >>, FALSE, 0)

\* two cards that carry the same id
DocDup == Document("array",
    << Item([id |-> -1, type |-> "personagem", name |-> "Ana", description |-> "", bonds |-> <<-1>>]),
       Item([id |-> -1, type |-> "evento", name |-> "Bia", description |-> ""]) >>, FALSE, 0)

\* the second card's bonds is a string
DocBadList == Document("array",
    << Item([id |-> -1, type |-> "evento", name |-> "Ana", description |-> ""]),
       [obj |-> [id |-> -2, type |-> "personagem", name |-> "Bia", description |-> ""],
        nonArray |-> {"bonds"}] >>, FALSE, 0)

\* a location, then a card whose bonds is a string
DocBadAfterLocal == Document("array",
    << Item([id |-> -1, type |-> "local", name |-> "Bia", description |-> "",
             adjacentLocations |-> <<>>, presentCharacters |-> <<>>]),
       [obj |-> [id |-> -2, type |-> "personagem", name |-> "Ana", description |-> ""],
        nonArray |-> {"bonds"}] >>, FALSE, 0)

\* text that JSON.parse rejects
DocUnparseable == Document("unparseable", <<>>, FALSE, 0)
\* {}
DocNoCards == Document("noCards", <<>>, FALSE, 0)
\* {"cards": {"0": {...}}}
DocNotArray == Document("notArray",
    << Item([id |-> -1, type |-> "evento", name |-> "Ana", description |-> ""]) >>, FALSE, 0)

\* a file whose read fails
DocUnreadable == Document("unreadable", <<>>, FALSE, 0)

Documents == {DocRefs, DocDup, DocBadList, DocUnparseable, DocNoCards, DocNotArray}

-----------------------------------------------------------------------------
(* exportCards / importCards *)

\* exportData that writes the cards in the order of the cards list.
exportDataSorted(cs, t) == Document("array", [i \in 1..Len(cs) |-> Item(sort(cs)[i])], TRUE, t)

\* JSON.parse(JSON.stringify({version, exportDate, cards})): the field values
\* of the model (strings, arrays of strings) are written and read back as
\* they are.
exportData(cs, t) == Document("array", [i \in 1..Len(cs) |-> Item(cs[i])], TRUE, t)

ToastNothing == "Nenhum card para exportar"
ToastExported == "cards exportados com sucesso!"

\* exportCards that sorts the array getAllCards returned before writing it.
exportCardsSorting(cs, f, t) ==
    IF Len(cs) = 0
    THEN [cards |-> cs, file |-> f, toast |-> ToastNothing, produced |-> FALSE]
    ELSE [cards |-> sort(cs), file |-> exportData(sort(cs), t), toast |-> ToastExported,
          produced |-> TRUE]

\* exportCards(): the collection, the file written (f when none is) and the
\* toast
exportCards(cs, f, t) ==
    IF Len(cs) = 0
    THEN [cards |-> cs, file |-> f, toast |-> ToastNothing, produced |-> FALSE]
    ELSE [cards |-> cs, file |-> exportData(cs, t), toast |-> ToastExported, produced |-> TRUE]

\* a check that accepts any truthy data.cards
validShapeTruthy(doc) == doc.shape \in {"array", "notArray"}

\* JSON.parse succeeds and not (!data.cards || !Array.isArray(data.cards))
validShape(doc) == doc.shape = "array"

\* first pass: the k-th card gets the k-th generated id; idMapping[oldId] is
\* overwritten when a later card carries the same oldId
idMapping(items, n) ==
    [old \in {items[k].obj.id : k \in 1..Len(items)} |->
        LET k == CHOOSE k \in 1..Len(items) :
                    /\ items[k].obj.id = old
                    /\ \A j \in (k+1)..Len(items) : items[j].obj.id # old
        IN generateId(n + k - 1)]

\* a second pass that keeps the ids this program has generated.
lookupKeepOwn(m, id) == IF id \in DOMAIN m /\ m[id] # 0 /\ id < 0 THEN m[id] ELSE id

\* idMapping[id] || id
lookup(m, id) == IF id \in DOMAIN m /\ m[id] # 0 THEN m[id] ELSE id

\* list.map(id => idMapping[id] || id).filter(id => id)
rewrite(m, list) ==
    SelectSeq([i \in 1..Len(list) |-> lookup(m, list[i])], LAMBDA x : x # 0)

\* the card the second pass pushes for one item
newCard(m, obj, t) ==
    Merge([f \in DOMAIN obj |-> IF f \in RefFields THEN rewrite(m, obj[f]) ELSE obj[f]],
          [id |-> m[obj.id], createdAt |-> t, updatedAt |-> t])

\* index of the first item on which the second pass throws (.map is not a
\* function), 0 when there is none
firstThrow(items) ==
    IF \E k \in 1..Len(items) : items[k].nonArray # {}
    THEN CHOOSE k \in 1..Len(items) :
            items[k].nonArray # {} /\ \A j \in 1..(k-1) : items[j].nonArray = {}
    ELSE 0

ToastInvalid == "Erro ao importar: arquivo invalido"
ToastImported == "cards importados com sucesso!"

ToastReadError == "Erro ao ler o arquivo"

\* reader.onerror that reports the error of an invalid file.
importOnerrorAsInvalid(cs, n) ==
    [cards |-> cs, idCount |-> n, toast |-> ToastInvalid, imported |-> 0]

\* reader.onerror: the collection, the ids used, the toast and the counter
importOnerror(cs, n) ==
    [cards |-> cs, idCount |-> n, toast |-> ToastReadError, imported |-> 0]

\* reader.onload: the collection, the ids used, the toast and the counter
importOnload(cs, doc, n, t, filter) ==
    IF ~validShape(doc)
    THEN [cards |-> cs, idCount |-> n, toast |-> ToastInvalid, imported |-> 0]
    ELSE LET items == doc.items
             ft == firstThrow(items)
             done == IF ft = 0 THEN Len(items) ELSE ft - 1
         IN CHOOSE r \in
                {IF ft = 0
                 THEN [cards |-> renderCardsList(pushed, filter), idCount |-> n + Len(items),
                       toast |-> ToastImported, imported |-> done]
                 ELSE [cards |-> pushed, idCount |-> n + Len(items),
                       toast |-> ToastInvalid, imported |-> done] :
                 pushed \in {cs \o [k \in 1..done |-> newCard(m, items[k].obj, t)] :
                                m \in {idMapping(items, n)}}} : TRUE

-----------------------------------------------------------------------------
(* Inputs *)

Filters == {"all"} \cup Types

\* cardData of createCard: what the form builds for an event and for a location
CardData ==
    { [type |-> "evento", name |-> "Ana", description |-> ""],
      [type |-> "local", name |-> "Bia", description |-> "Ana",
       adjacentLocations |-> <<>>, presentCharacters |-> <<>>] }

Ids(cs) == {cs[i].id : i \in 1..Len(cs)}

\* cardData of createCard that carries an id field, the id of a card of cs,
\* and no description
Overriding(cs) == {[id |-> x, type |-> "evento", name |-> "Bia"] : x \in Ids(cs)}

\* cardData of updateCard for a collection cs: nothing, or a name and a
\* reference list
Partials(cs) ==
    {<< >>} \cup {[name |-> "Ana", adjacentLocations |-> <<x>>] : x \in Ids(cs)}

\* the queries of searchCards
Queries == {"", "AN", "bi", "x"}

\* the three tag containers of the form, empty
EmptySelection == [adjacent |-> <<>>, characters |-> <<>>, bonds |-> <<>>]

\* the record kept of the last operation
Op(op, id, data, doc, found, ret, toast, imported) ==
    [op |-> op, id |-> id, data |-> data, doc |-> doc, found |-> found,
     ret |-> ret, toast |-> toast, imported |-> imported, time |-> now]

-----------------------------------------------------------------------------
(* State machine *)

Init ==
    /\ cards = <<>>
    /\ navigationHistory = <<>>
    /\ idCount = 0
    /\ now = 0
    /\ currentView = "cards"
    /\ currentFilter = "all"
    /\ currentCard = NoCard
    /\ editingCardId = NoCard
    /\ selectedType = NoType
    /\ selected = EmptySelection
    /\ file = NoFile
    /\ reading = <<>>
    /\ last = [op |-> "init", id |-> NoCard, data |-> << >>, doc |-> NoFile,
               found |-> FALSE, ret |-> <<>>, toast |-> "", imported |-> 0, time |-> 0]

\* the clock advances between two handlers
Tick ==
    /\ now < MaxTime
    /\ now' = now + 1
    /\ last' = Op("tick", NoCard, << >>, NoFile, TRUE, <<>>, "", 0)
    /\ UNCHANGED <<cards, navigationHistory, idCount, uiVars, file, reading>>

\* dataStore.createCard(cardData)
CreateCard ==
    \E data \in CardData :
        /\ Len(cards) < MaxCards
        /\ idCount < MaxCards
        /\ cards' = createCard(cards, data, idCount, now)
        /\ idCount' = idCount + 1
        /\ last' = Op("createCard", NoCard, data, NoFile, TRUE, <<cards'[Len(cards')]>>, "", 0)
        /\ UNCHANGED <<navigationHistory, now, uiVars, file, reading>>

\* dataStore.createCard(cardData) by a caller whose cardData has an id field
CreateCardWithId ==
    \E data \in Overriding(cards) :
        /\ Len(cards) < MaxCards
        /\ idCount < MaxCards
        /\ cards' = createCard(cards, data, idCount, now)
        /\ idCount' = idCount + 1
        /\ last' = Op("createCard", NoCard, data, NoFile, TRUE, <<cards'[Len(cards')]>>, "", 0)
        /\ UNCHANGED <<navigationHistory, now, uiVars, file, reading>>

\* dataStore.updateCard(id, cardData)
UpdateCard ==
    \E id \in Ids(cards) \cup {-3} : \E data \in Partials(cards) :
        /\ cards' = updateCard(cards, id, data, now)
        /\ last' = Op("updateCard", id, data, NoFile, findIndex(cards, id) # 0,
                      IF findIndex(cards, id) # 0 THEN <<cards'[findIndex(cards, id)]>> ELSE <<>>,
                      "", 0)
        /\ UNCHANGED <<navigationHistory, idCount, now, uiVars, file, reading>>

\* a deleteCard that also takes the id out of the navigation history.
DeleteCardForgetting ==
    \E id \in Ids(cards) \cup {-3} :
        /\ cards' = deleteCard(cards, id)
        /\ navigationHistory' = without(navigationHistory, id)
        /\ last' = Op("deleteCard", id, << >>, NoFile, findIndex(cards, id) # 0, <<>>, "", 0)
        /\ UNCHANGED <<idCount, now, uiVars, file, reading>>

\* dataStore.deleteCard(id)
DeleteCard ==
    \E id \in Ids(cards) \cup {-3} :
        /\ cards' = deleteCard(cards, id)
        /\ last' = Op("deleteCard", id, << >>, NoFile, findIndex(cards, id) # 0, <<>>, "", 0)
        /\ UNCHANGED <<navigationHistory, idCount, now, uiVars, file, reading>>

\* UIController.setFilter(filter)
SetFilter ==
    \E filter \in Filters :
        /\ currentFilter' = filter
        /\ cards' = renderCardsList(cards, filter)
        /\ last' = Op("setFilter", NoCard, << >>, NoFile, TRUE, <<>>, "", 0)
        /\ UNCHANGED <<navigationHistory, idCount, now, currentView, currentCard,
                       formVars, file, reading>>

\* exportCards()
ExportCards ==
    LET r == exportCards(cards, file, now) IN
    /\ cards' = r.cards
    /\ file' = r.file
    /\ last' = Op("exportCards", NoCard, << >>, r.file, r.produced, <<>>, r.toast, 0)
    /\ UNCHANGED <<navigationHistory, idCount, now, uiVars, reading>>

\* importCards(event): reader.onload for the text of one file
ImportCards ==
    \E doc \in Documents \cup ({file} \ {NoFile}) :
        LET r == importOnload(cards, doc, idCount, now, currentFilter) IN
        /\ Len(cards) + Len(doc.items) <= MaxRepo
        /\ idCount + Len(doc.items) <= MaxIds
        /\ cards' = r.cards
        /\ idCount' = r.idCount
        /\ last' = Op("importCards", NoCard, << >>, doc, r.toast = ToastImported, <<>>, r.toast, r.imported)
        /\ UNCHANGED <<navigationHistory, now, uiVars, file, reading>>

\* importCards(event): reader.onerror, the read of the file has failed
ReaderOnerror ==
    LET r == importOnerror(cards, idCount) IN
    /\ cards' = r.cards
    /\ idCount' = r.idCount
    /\ last' = Op("importCards", NoCard, << >>, DocUnreadable, FALSE, <<>>, r.toast, r.imported)
    /\ UNCHANGED <<navigationHistory, now, uiVars, file, reading>>

\* the card repository under calls of its methods
NextStore ==
    \/ Tick
    \/ CreateCard
    \/ UpdateCard
    \/ DeleteCard

SpecStore == Init /\ [][NextStore]_vars

\* export and import over a repository that is filled, filtered and emptied
Next ==
    \/ CreateCard
    \/ DeleteCard
    \/ SetFilter
    \/ ExportCards
    \/ ImportCards
    \/ ReaderOnerror

Spec == Init /\ [][Next]_vars

-----------------------------------------------------------------------------
(* The form and the card detail of the UIController *)

Views == {"cards", "create"}

Containers == {"adjacent", "characters", "bonds"}

\* the fields block that selectType(type) shows holds these containers
Visible(type) ==
    CASE type = "local" -> {"adjacent", "characters"}
      [] type = "personagem" -> {"bonds"}
      [] OTHER -> {}

\* populateConnectionSelectors: the ids offered by the select of a container
Options(cs, container, editing) ==
    LET type == IF container = "adjacent" THEN "local" ELSE "personagem"
        offered == getCardsByType(cs, type)
    IN {offered[i].id : i \in 1..Len(offered)}
         \ (IF container = "characters" THEN {} ELSE {editing} \ {NoCard})

\* addConnectionTag(cardId, containerId): no tag for an id without a card, no
\* second tag for an id
addConnectionTag(cs, tags, cardId) ==
    IF getCard(cs, cardId) = <<>> \/ cardId \in Range(tags) THEN tags ELSE Append(tags, cardId)

\* card.adjacentLocations.forEach(id => this.addConnectionTag(id, ...)) on a
\* container that was emptied
RECURSIVE addConnectionTags(_, _, _)
addConnectionTags(cs, tags, list) ==
    IF list = <<>> THEN tags
    ELSE addConnectionTags(cs, addConnectionTag(cs, tags, Head(list)), Tail(list))

\* the containers after editCard has filled the form from card
editSelection(cs, sel, card) ==
    CASE card.type = "local" ->
            [sel EXCEPT !.adjacent =
                        IF "adjacentLocations" \in DOMAIN card
                        THEN addConnectionTags(cs, <<>>, card.adjacentLocations) ELSE <<>>,
                        !.characters =
                        IF "presentCharacters" \in DOMAIN card
                        THEN addConnectionTags(cs, <<>>, card.presentCharacters) ELSE <<>>]
      [] card.type = "personagem" ->
            [sel EXCEPT !.bonds =
                        IF "bonds" \in DOMAIN card
                        THEN addConnectionTags(cs, <<>>, card.bonds) ELSE <<>>]
      [] OTHER -> sel

\* cardData of handleFormSubmit
formData(type, name, sel) ==
    CASE type = "local" ->
            [type |-> type, name |-> name, description |-> "",
             adjacentLocations |-> sel.adjacent, presentCharacters |-> sel.characters]
      [] type = "personagem" ->
            [type |-> type, name |-> name, description |-> "", bonds |-> sel.bonds]
      [] OTHER -> [type |-> type, name |-> name, description |-> ""]

\* showView(view) from a navigation button
ShowView ==
    \E view \in Views :
        /\ currentView' = view
        /\ IF view = "create" /\ editingCardId = NoCard
           THEN /\ selectedType' = NoType
                /\ selected' = EmptySelection
           ELSE UNCHANGED <<selectedType, selected>>
        /\ last' = Op("showView", NoCard, << >>, NoFile, TRUE, <<>>, "", 0)
        /\ UNCHANGED <<cards, navigationHistory, idCount, now, currentFilter, currentCard,
                       editingCardId, file, reading>>

\* the type buttons pressed: locations refer to locations, events to nothing
FormTypes == {"evento", "local"}

\* selectType(type) from a type button of the form
SelectType ==
    \E type \in FormTypes :
        /\ currentView = "create"
        /\ selectedType' = type
        /\ last' = Op("selectType", NoCard, << >>, NoFile, TRUE, <<>>, "", 0)
        /\ UNCHANGED <<cards, navigationHistory, idCount, now, currentView, currentFilter,
                       currentCard, editingCardId, selected, file, reading>>

\* change of a connection select: addConnectionTag(cardId, container)
AddConnectionTag ==
    \E container \in Containers : \E cardId \in Options(cards, container, editingCardId) :
        /\ currentView = "create"
        /\ container \in Visible(selectedType)
        /\ selected' = [selected EXCEPT ![container] = addConnectionTag(cards, @, cardId)]
        /\ last' = Op("addConnectionTag", NoCard, << >>, NoFile, TRUE, <<>>, "", 0)
        /\ UNCHANGED <<cards, navigationHistory, idCount, now, currentView, currentFilter,
                       currentCard, editingCardId, selectedType, file, reading>>

\* removeConnectionTag(cardId, containerId) from the button of a tag
RemoveConnectionTag ==
    \E container \in Containers : \E cardId \in Range(selected[container]) :
        /\ currentView = "create"
        /\ container \in Visible(selectedType)
        /\ selected' = [selected EXCEPT ![container] = without(@, cardId)]
        /\ last' = Op("removeConnectionTag", NoCard, << >>, NoFile, TRUE, <<>>, "", 0)
        /\ UNCHANGED <<cards, navigationHistory, idCount, now, currentView, currentFilter,
                       currentCard, editingCardId, selectedType, file, reading>>

\* the names typed into the form
FormNames == {"Ana"}

\* handleFormSubmit() with a type selected and a name typed
HandleFormSubmit ==
    \E name \in FormNames :
        LET cardData == formData(selectedType, name, selected)
            stored == IF editingCardId # NoCard
                      THEN updateCard(cards, editingCardId, cardData, now)
                      ELSE createCard(cards, cardData, idCount, now)
        IN /\ currentView = "create"
           /\ selectedType # NoType
           /\ editingCardId = NoCard => (Len(cards) < MaxCards /\ idCount < MaxCards)
           /\ cards' = renderCardsList(stored, currentFilter)
           /\ idCount' = IF editingCardId # NoCard THEN idCount ELSE idCount + 1
           /\ currentView' = "cards"
           /\ editingCardId' = NoCard
           /\ selectedType' = NoType
           /\ selected' = EmptySelection
           /\ last' = Op("handleFormSubmit", editingCardId, cardData, NoFile,
                         editingCardId = NoCard \/ findIndex(cards, editingCardId) # 0, <<>>,
                         IF editingCardId # NoCard THEN "Card atualizado com sucesso!"
                         ELSE "Card criado com sucesso!", 0)
           /\ UNCHANGED <<navigationHistory, now, currentFilter, currentCard, file, reading>>

\* an openCard that pushes the card it opens.
openCardPushOpened(cs, h, current, cardId, filter) ==
    IF getCard(cs, cardId) = <<>>
    THEN [cards |-> cs, navigationHistory |-> h, currentCard |-> current]
    ELSE [cards |-> renderCardsList(cs, filter),
          navigationHistory |-> IF current # NoCard THEN pushToHistory(h, cardId) ELSE h,
          currentCard |-> cardId]

\* openCard(cardId): the collection, the history and the open card after it
openCard(cs, h, current, cardId, filter) ==
    IF getCard(cs, cardId) = <<>>
    THEN [cards |-> cs, navigationHistory |-> h, currentCard |-> current]
    ELSE [cards |-> renderCardsList(cs, filter),
          navigationHistory |-> IF current # NoCard THEN pushToHistory(h, current) ELSE h,
          currentCard |-> cardId]

\* openCard(cardId) from an item of the cards list or a link of the detail
OpenCard ==
    \E cardId \in Ids(cards) \cup {-3} :
        \E r \in {openCard(cards, navigationHistory, currentCard, cardId, currentFilter)} :
            /\ Len(r.navigationHistory) <= MaxNav
            /\ navigationHistory' = r.navigationHistory
            /\ currentCard' = r.currentCard
            /\ currentView' = IF getCard(cards, cardId) = <<>> THEN currentView ELSE "cards"
            /\ cards' = r.cards
            /\ last' = Op("openCard", cardId, << >>, NoFile, getCard(cards, cardId) # <<>>,
                          <<>>, "", 0)
            /\ UNCHANGED <<idCount, now, currentFilter, formVars, file, reading>>

\* closeCardDetail() from the close button of the detail
CloseCardDetail ==
    /\ currentCard # NoCard
    /\ currentCard' = NoCard
    /\ last' = Op("closeCardDetail", NoCard, << >>, NoFile, TRUE, <<>>, "", 0)
    /\ UNCHANGED <<cards, navigationHistory, idCount, now, currentView, currentFilter,
                   formVars, file, reading>>

\* editCard(cardId) from the detail of the open card
EditCard ==
    /\ currentCard # NoCard
    /\ getCard(cards, currentCard) # <<>>
    /\ LET card == getCard(cards, currentCard)[1] IN
        /\ editingCardId' = currentCard
        /\ currentView' = "create"
        /\ selectedType' = card.type
        /\ selected' = editSelection(cards, selected, card)
    /\ last' = Op("editCard", currentCard, << >>, NoFile, TRUE, <<>>, "", 0)
    /\ UNCHANGED <<cards, navigationHistory, idCount, now, currentFilter, currentCard, file, reading>>

\* confirmDeleteCard(cardId) from the detail of the open card, confirmed
ConfirmDeleteCard ==
    /\ currentCard # NoCard
    /\ getCard(cards, currentCard) # <<>>
    /\ cards' = renderCardsList(deleteCard(cards, currentCard), currentFilter)
    /\ currentCard' = NoCard
    /\ last' = Op("confirmDeleteCard", currentCard, << >>, NoFile, TRUE, <<>>, "Card excluido", 0)
    /\ UNCHANGED <<navigationHistory, idCount, now, currentView, currentFilter, formVars, file, reading>>

\* the cards written through the form and the detail of the open card
NextUI ==
    \/ ShowView
    \/ SelectType
    \/ AddConnectionTag
    \/ RemoveConnectionTag
    \/ HandleFormSubmit
    \/ OpenCard
    \/ CloseCardDetail
    \/ EditCard
    \/ ConfirmDeleteCard

SpecUI == Init /\ [][NextUI]_vars

\* the cards opened from the list and from the links of the detail
NextNav ==
    \/ CreateCard
    \/ OpenCard
    \/ CloseCardDetail
    \/ ConfirmDeleteCard

SpecNav == Init /\ [][NextNav]_vars

\* the files chosen while the form is in use
FormDocs == {DocBadAfterLocal, DocNoCards}

\* importCards(event): reader.onload for the text of one of these files
ImportWhileEditing ==
    \E doc \in FormDocs :
        \E r \in {importOnload(cards, doc, idCount, now, currentFilter)} :
            /\ Len(cards) + Len(doc.items) <= MaxRepo
            /\ idCount + Len(doc.items) <= MaxIds
            /\ cards' = r.cards
            /\ idCount' = r.idCount
            /\ last' = Op("importCards", NoCard, << >>, doc, r.toast = ToastImported, <<>>,
                          r.toast, r.imported)
            /\ UNCHANGED <<navigationHistory, now, uiVars, file, reading>>

\* the form, the detail of the open card and the import button
NextForm ==
    \/ ShowView
    \/ SelectType
    \/ HandleFormSubmit
    \/ OpenCard
    \/ EditCard
    \/ ConfirmDeleteCard
    \/ ImportWhileEditing

SpecForm == Init /\ [][NextForm]_vars

\* dataStore.updateCard(id, {}): nothing but updatedAt is written
UpdateCardEmpty ==
    \E id \in Ids(cards) \cup {-3} :
        /\ cards' = updateCard(cards, id, << >>, now)
        /\ last' = Op("updateCard", id, << >>, NoFile, findIndex(cards, id) # 0,
                      IF findIndex(cards, id) # 0 THEN <<cards'[findIndex(cards, id)]>> ELSE <<>>,
                      "", 0)
        /\ UNCHANGED <<navigationHistory, idCount, now, uiVars, file, reading>>

\* the repository written while cards are opened
NextFrame ==
    \/ CreateCard
    \/ UpdateCardEmpty
    \/ DeleteCard
    \/ ExportCards
    \/ ImportWhileEditing
    \/ OpenCard

SpecFrame == Init /\ [][NextFrame]_vars

-----------------------------------------------------------------------------
(* The repository created, updated, deleted and searched *)

\* dataStore.searchCards(query)
SearchCards ==
    \E query \in Queries :
        LET result == searchCards(cards, query) IN
        /\ last' = Op("searchCards", NoCard, [query |-> query], NoFile, result # <<>>, result, "", 0)
        /\ UNCHANGED <<cards, navigationHistory, idCount, now, uiVars, file, reading>>

NextQuery ==
    \/ CreateCard
    \/ CreateCardWithId
    \/ UpdateCard
    \/ DeleteCard
    \/ SearchCards

SpecQuery == Init /\ [][NextQuery]_vars

-----------------------------------------------------------------------------
(* Imports whose file is read while other handlers run *)

Pending == "pending"

\* the documents of the files chosen
ReadDocs == {DocRefs, DocNoCards}

\* a read whose callback ends with an exception that nothing catches: no
\* notification for an invalid file.
settledUncaught(reads, k, toast) ==
    IF toast = ToastInvalid THEN reads ELSE [reads EXCEPT ![k].outcome = toast]

\* the k-th import has ended with the notification toast: onload shows one
\* in its try block or in its catch block, onerror shows its own
settled(reads, k, toast) == [reads EXCEPT ![k].outcome = toast]

\* importCards(event): reader.readAsText(file), the callbacks run later
ImportTrigger ==
    \E doc \in ReadDocs \cup ({file} \ {NoFile}) :
        /\ Len(reading) < MaxReads
        /\ reading' = Append(reading, [doc |-> doc, outcome |-> Pending])
        /\ last' = Op("readAsText", NoCard, << >>, doc, TRUE, <<>>, "", 0)
        /\ UNCHANGED <<cards, navigationHistory, idCount, now, uiVars, file>>

\* reader.onload of the k-th import
ReadCompleted(k) ==
    /\ k \in 1..Len(reading)
    /\ reading[k].outcome = Pending
    /\ \E r \in {importOnload(cards, reading[k].doc, idCount, now, currentFilter)} :
          /\ cards' = r.cards
          /\ idCount' = r.idCount
          /\ reading' = settled(reading, k, r.toast)
          /\ last' = Op("importCards", NoCard, << >>, reading[k].doc, r.toast = ToastImported,
                        <<>>, r.toast, r.imported)
    /\ UNCHANGED <<navigationHistory, now, uiVars, file>>

\* reader.onerror of the k-th import
ReadFailed(k) ==
    /\ k \in 1..Len(reading)
    /\ reading[k].outcome = Pending
    /\ LET r == importOnerror(cards, idCount) IN
          /\ cards' = r.cards
          /\ idCount' = r.idCount
          /\ reading' = settled(reading, k, r.toast)
          /\ last' = Op("importCards", NoCard, << >>, DocUnreadable, FALSE, <<>>, r.toast,
                        r.imported)
    /\ UNCHANGED <<navigationHistory, now, uiVars, file>>

NextReads ==
    \/ ImportTrigger
    \/ \E k \in 1..MaxReads : ReadCompleted(k)
    \/ \E k \in 1..MaxReads : ReadFailed(k)
    \/ DeleteCard
    \/ ExportCards

SpecReads == Init /\ [][NextReads]_vars

\* the event loop runs the callback of every read that has ended
SpecReadsFair ==
    SpecReads /\ \A k \in 1..MaxReads : WF_vars(ReadCompleted(k) \/ ReadFailed(k))

-----------------------------------------------------------------------------
(* The navigation history under calls of its two methods *)

\* dataStore.pushToHistory(cardId): the ids pushed are distinct, the n-th call
\* pushes the n-th generated id
PushToHistory ==
    LET cardId == generateId(idCount) IN
    /\ idCount < MaxPush
    /\ navigationHistory' = pushToHistory(navigationHistory, cardId)
    /\ idCount' = idCount + 1
    /\ last' = Op("pushToHistory", cardId, << >>, NoFile, TRUE, <<>>, "", 0)
    /\ UNCHANGED <<cards, now, uiVars, file, reading>>

\* dataStore.getLastFromHistory(): returns the id popped, undefined (NoCard)
\* when the history is empty
GetLastFromHistory ==
    /\ idCount - Len(navigationHistory) < MaxPop
    /\ navigationHistory' = getLastFromHistory(navigationHistory)
    /\ last' = Op("getLastFromHistory",
                  IF navigationHistory = <<>> THEN NoCard
                  ELSE navigationHistory[Len(navigationHistory)],
                  << >>, NoFile, navigationHistory # <<>>, <<>>, "", 0)
    /\ UNCHANGED <<cards, idCount, now, uiVars, file, reading>>

NextHistory ==
    \/ PushToHistory
    \/ GetLastFromHistory

SpecHistory == Init /\ [][NextHistory]_vars

-----------------------------------------------------------------------------
(* The focal point of a card's image: createFlipCard and editCard *)

\* the value of a field: its JavaScript type and its text
Absent == [kind |-> "undefined", v |-> ""]
Null == [kind |-> "null", v |-> ""]
Num(n) == [kind |-> "number", v |-> n]
Str(t) == [kind |-> "string", v |-> t]

\* card[f]
field(card, f) == IF f \in DOMAIN card THEN card[f] ELSE Absent

\* v ?? d
nullish(v, d) == IF v.kind \in {"undefined", "null"} THEN d ELSE v

\* the Y a legacy single position stands for
legacyY(p) ==
    IF p.kind = "string"
    THEN (IF p.v = "top" THEN Num("0") ELSE IF p.v = "bottom" THEN Num("100") ELSE Num("50"))
    ELSE nullish(p, Num("50"))

\* createFlipCard(card): <<imagePositionX, imagePositionY>>
createFlipCard(card) ==
    LET X == field(card, "imagePositionX")
        Y == field(card, "imagePositionY")
        P == field(card, "imagePosition")
    IN IF X # Absent THEN <<nullish(X, Num("50")), nullish(Y, Num("50"))>>
       ELSE IF P # Absent THEN <<Num("50"), legacyY(P)>>
       ELSE <<Num("50"), Num("50")>>

\* setCardImageData(image, positionX, positionY):
\* <<currentImagePositionX, currentImagePositionY>>
setCardImageData(positionX, positionY) ==
    IF positionY = Absent /\ positionX # Absent
    THEN <<Num("50"), legacyY(positionX)>>
    ELSE <<nullish(positionX, Num("50")), nullish(positionY, Num("50"))>>

\* editCard(cardId): the image data it loads into the form
editCardImage(card) ==
    IF field(card, "imagePositionX") # Absent
    THEN setCardImageData(field(card, "imagePositionX"), field(card, "imagePositionY"))
    ELSE setCardImageData(field(card, "imagePosition"), Absent)

ImageFields == {"imagePositionX", "imagePositionY", "imagePosition"}
ImageValues == {Null, Num("30"), Num("50"), Str("top"), Str("bottom"), Str("center")}

\* the image fields of a card, each absent or holding one of the values
ImageCards == UNION {[F -> ImageValues] : F \in SUBSET ImageFields}

\* the card is rendered in the grid
CreateFlipCard ==
    \E card \in ImageCards :
        /\ last' = Op("createFlipCard", NoCard, card, NoFile, TRUE, createFlipCard(card), "", 0)
        /\ UNCHANGED <<cards, navigationHistory, idCount, now, uiVars, file, reading>>

\* the card is opened in the edit form
EditCardImage ==
    \E card \in ImageCards :
        /\ last' = Op("setCardImageData", NoCard, card, NoFile, TRUE, editCardImage(card), "", 0)
        /\ UNCHANGED <<cards, navigationHistory, idCount, now, uiVars, file, reading>>

NextImage ==
    \/ CreateFlipCard
    \/ EditCardImage

SpecImage == Init /\ [][NextImage]_vars

-----------------------------------------------------------------------------
(* Properties *)

Refs(c) == UNION {Range(c[f]) : f \in RefFields \cap DOMAIN c}

Imported == last.op = "importCards"

\* every reference field of the items of a document is an array
WellFormed(doc) == validShape(doc) /\ \A k \in 1..Len(doc.items) : doc.items[k].nonArray = {}

\* C1: after deleteCard(id) has returned true for the id of a card of the
\* collection, no card lists id in adjacentLocations, presentCharacters or
\* bonds, and getCard(id) finds no card.
C1_DeleteCascade ==
    (last.op = "deleteCard" /\ last.found) =>
        /\ \A i \in 1..Len(cards) : last.id \notin Refs(cards[i])
        /\ getCard(cards, last.id) = <<>>

\* C2: every id in a reference list of a card of the collection is the id of
\* a card of the collection.
C2_NoDanglingReference ==
    \A i \in 1..Len(cards) : Refs(cards[i]) \subseteq Ids(cards)

\* C3: no two cards of the collection have the same id.
C3_UniqueIds ==
    \A i, j \in 1..Len(cards) : cards[i].id = cards[j].id => i = j

\* C4: the import of a well-formed document of M cards into a collection of N
\* cards leaves N+M cards, and no imported card has an id that a card of the
\* collection had before the import: exactly M cards carry an id that was
\* not there.
C4_ImportAddsFreshIds ==
    [][(last'.op = "importCards" /\ WellFormed(last'.doc)) =>
          /\ Len(cards') = Len(cards) + Len(last'.doc.items)
          /\ Cardinality({i \in 1..Len(cards') : cards'[i].id \notin Ids(cards)})
                = Len(last'.doc.items)]_vars

C4_Witness ==
    /\ Imported /\ WellFormed(last.doc)
    /\ last.imported = 2
    /\ Len(cards) = 3

\* C5: the import of a text that does not parse, or has no cards field, or
\* whose cards field is not an array, leaves the collection as it was and
\* reports the error.
C5_MalformedRejected ==
    [][(last'.op = "importCards" /\ last'.doc.shape \in {"unparseable", "noCards", "notArray"}) =>
          /\ cards' = cards
          /\ last'.toast = ToastInvalid]_vars

C5_Witness ==
    /\ Imported /\ last.doc.shape = "notArray"
    /\ last.toast = ToastInvalid
    /\ Len(cards) > 0

\* C6: an import that ends by reporting an error leaves the collection equal
\* to the collection before the import.
C6_ImportAllOrNothing ==
    [][(last'.op = "importCards" /\ last'.toast = ToastInvalid) => cards' = cards]_vars

\* the fields of a card that an import copies as they are
Copied(c) == DOMAIN c \ ({"id", "createdAt", "updatedAt"} \cup RefFields)

\* C7: the import of an exported document into an empty collection yields the
\* exported cards in their order: the k-th card equals the k-th exported card
\* in every field but id, createdAt, updatedAt, and where the k-th exported
\* card lists the id of the j-th at a position of a reference list, the k-th
\* card lists the id of the j-th card at that position of that list.
C7_RoundTrip ==
    [][(last'.op = "importCards" /\ last'.doc.exported /\ cards = <<>>) =>
          LET items == last'.doc.items IN
          /\ Len(cards') = Len(items)
          /\ \A k \in 1..Len(items) :
                LET orig == items[k].obj
                    copy == cards'[k]
                IN /\ DOMAIN copy = DOMAIN orig
                   /\ \A f \in Copied(orig) : copy[f] = orig[f]
                   /\ \A f \in RefFields \cap DOMAIN orig :
                        /\ Len(copy[f]) = Len(orig[f])
                        /\ \A p \in 1..Len(orig[f]) : \A j \in 1..Len(items) :
                              orig[f][p] = items[j].obj.id => copy[f][p] = cards'[j].id]_vars

\* C8: an imported card holds, at each position of each reference list of the
\* incoming card, the new id of the card of the document that has the id
\* found there, or that id itself when no card of the document has it; the
\* list keeps its length and its order.
C8_ReferenceRewrite ==
    [][(last'.op = "importCards" /\ validShape(last'.doc)) =>
          LET items == last'.doc.items
              m == idMapping(items, idCount)
          IN \A k \in 1..last'.imported :
                \E i \in 1..Len(cards') :
                    /\ cards'[i].id = m[items[k].obj.id]
                    /\ cards'[i].name = items[k].obj.name
                    /\ \A f \in RefFields \cap DOMAIN items[k].obj :
                          cards'[i][f] = [p \in 1..Len(items[k].obj[f]) |->
                                            IF items[k].obj[f][p] \in DOMAIN m
                                            THEN m[items[k].obj[f][p]]
                                            ELSE items[k].obj[f][p]]]_vars

\* C9: a successful import keeps the cards that were there, with their field
\* values and in their order, puts the imported cards after them in the order
\* of the document, and reports as many cards as the document has.
C9_ImportAppends ==
    [][(last'.op = "importCards" /\ last'.toast = ToastImported) =>
          LET items == last'.doc.items IN
          /\ Len(cards') = Len(cards) + Len(items)
          /\ SubSeq(cards', 1, Len(cards)) = cards
          /\ \A k \in 1..Len(items) :
                \A f \in Copied(items[k].obj) :
                    cards'[Len(cards) + k][f] = items[k].obj[f]
          /\ last'.imported = Len(items)]_vars

\* C10: updateCard(id, partial) for the id of a card of the collection changes,
\* on the first card with that id, only the fields named in partial and
\* updatedAt; it changes no other card and not the order, and returns the
\* stored card.
C10_UpdateMerge ==
    [][(last'.op = "updateCard" /\ last'.found) =>
          LET index == findIndex(cards, last'.id)
              partial == last'.data
          IN /\ Len(cards') = Len(cards)
             /\ \A j \in 1..Len(cards) : j # index => cards'[j] = cards[j]
             /\ DOMAIN cards'[index] = DOMAIN cards[index] \cup DOMAIN partial \cup {"updatedAt"}
             /\ \A f \in DOMAIN cards[index] \ (DOMAIN partial \cup {"updatedAt"}) :
                    cards'[index][f] = cards[index][f]
             /\ \A f \in DOMAIN partial \ {"updatedAt"} : cards'[index][f] = partial[f]
             /\ cards'[index].updatedAt = now
             /\ last'.ret = <<cards'[index]>>]_vars

C10_Witness ==
    /\ last.op = "updateCard" /\ last.found
    /\ Len(cards) = 2
    /\ \E i \in 1..Len(cards) :
          /\ i = findIndex(cards, last.id)
          /\ cards[i].type = "local" /\ cards[i].name = "Ana"
          /\ cards[i].presentCharacters = <<>>
          /\ cards[i].adjacentLocations # <<>>
          /\ cards[i].createdAt < cards[i].updatedAt

\* C11: when no card has the id, updateCard returns null and deleteCard returns
\* false, and the collection and the navigation history stay as they were.
C11_NotFound ==
    [][(last'.op \in {"updateCard", "deleteCard"} /\ last'.id \notin Ids(cards)) =>
          /\ ~last'.found
          /\ last'.ret = <<>>
          /\ cards' = cards
          /\ navigationHistory' = navigationHistory]_vars

C11_Witness ==
    /\ last.op = "updateCard" /\ ~last.found
    /\ last.data # << >>
    /\ last.id \notin Ids(cards)
    /\ Len(cards) = 2

\* C12: a card that stays in the collection keeps its id and its type: after
\* every step, a card that has the id of a card of the collection before the
\* step has the type that card had, and a step that edits a card through the
\* form leaves the ids of the collection as they were.
C12_IdAndTypeImmutable ==
    [][/\ \A i \in 1..Len(cards) : \A j \in 1..Len(cards') :
              cards'[j].id = cards[i].id => cards'[j].type = cards[i].type
       /\ (last'.op = "handleFormSubmit" /\ last'.id # NoCard) =>
              (Len(cards') = Len(cards) /\ Ids(cards') = Ids(cards))]_vars

\* the last n elements of s
LastN(s, n) == IF Len(s) > n THEN SubSeq(s, Len(s) - n + 1, Len(s)) ELSE s

\* C13: the navigation history never holds more than 20 ids, and a push
\* leaves the last 20 of the ids that were there followed by the id pushed,
\* in push order: the oldest id is the one discarded.
C13_HistoryBound ==
    /\ [](Len(navigationHistory) <= 20)
    /\ [][last'.op = "pushToHistory" =>
             navigationHistory' = LastN(Append(navigationHistory, last'.id), 20)]_vars

\* 25 distinct ids were pushed and the history holds the last 20 of them
C13_Witness ==
    /\ last.op = "pushToHistory"
    /\ idCount = 25
    /\ navigationHistory = [i \in 1..20 |-> i + 5]

\* C14: createCard(data) returns a card that getCard finds under its id, that
\* has every field of data with the value given, and that is the last card of
\* the collection; the cards that were there are unchanged.
C14_CreateReadRoundTrip ==
    [][last'.op = "createCard" =>
          LET card == last'.ret[1]
              data == last'.data
          IN /\ getCard(cards', card.id) = <<card>>
             /\ \A f \in DOMAIN data : card[f] = data[f]
             /\ Len(cards') = Len(cards) + 1
             /\ cards'[Len(cards')] = card
             /\ SubSeq(cards', 1, Len(cards)) = cards]_vars

\* text contains q when the characters of q are found in a row in text, upper
\* and lower case taken as equal
ContainsIgnoringCase(text, q) ==
    \E i \in 1..(Len(letters(text)) - Len(letters(q)) + 1) :
        \A k \in 1..Len(letters(q)) : lower(letters(text)[i + k - 1]) = lower(letters(q)[k])

\* C18: searchCards(q) returns, in collection order, exactly the cards whose
\* name contains q or that have a description that contains q, upper and
\* lower case taken as equal, and leaves the collection as it was.
C18_Search ==
    [][last'.op = "searchCards" =>
          /\ last'.ret = SelectSeq(cards, LAMBDA c :
                            \/ ContainsIgnoringCase(c.name, last'.data.query)
                            \/ /\ "description" \in DOMAIN c
                               /\ ContainsIgnoringCase(c.description, last'.data.query))
          /\ cards' = cards]_vars

\* a query in upper case that matches the description of one card and
\* nothing of the other, which has the same name and no description
C18_Witness ==
    /\ last.op = "searchCards" /\ last.data.query = "AN"
    /\ Len(cards) = 2
    /\ Len(last.ret) = 1
    /\ last.ret[1].name = "Bia" /\ last.ret[1].description = "Ana"
    /\ \E i \in 1..Len(cards) : cards[i].name = "Bia" /\ "description" \notin DOMAIN cards[i]

\* C15 as stated: in every state of the repository exportCards produces a
\* document with version "1.0", an export date and the cards of the collection,
\* card for card in collection order.
C15_ExportWholeCollection ==
    [][last'.op = "exportCards" =>
          /\ last'.found
          /\ file'.version = "1.0" /\ file'.exportDate = now /\ file'.shape = "array"
          /\ Len(file'.items) = Len(cards)
          /\ \A k \in 1..Len(cards) : file'.items[k].obj = cards[k]]_vars

\* C15 amended: for a collection that is not empty exportCards produces that
\* document; for the empty collection it produces none and reports that
\* there is no card to export.
C15_ExportNonEmptyCollection ==
    [][last'.op = "exportCards" =>
          IF cards = <<>>
          THEN ~last'.found /\ file' = file /\ last'.toast = "Nenhum card para exportar"
          ELSE /\ last'.found
               /\ file'.version = "1.0" /\ file'.exportDate = now /\ file'.shape = "array"
               /\ Len(file'.items) = Len(cards)
               /\ \A k \in 1..Len(cards) :
                     file'.items[k].obj = cards[k] /\ file'.items[k].nonArray = {}]_vars

\* an export of two cards that the cards list would show in another order
C15_Witness ==
    /\ last.op = "exportCards" /\ last.found
    /\ Len(cards) = 2 /\ Len(file.items) = 2
    /\ file.items[1].obj.type = "evento" /\ file.items[2].obj.type = "local"
    /\ file.items[2].obj.id = cards[2].id

\* C16: exportCards leaves the collection and the navigation history as they
\* were, whether or not it produced a document.
C16_ExportChangesNothing ==
    [][last'.op = "exportCards" =>
          /\ cards' = cards
          /\ navigationHistory' = navigationHistory]_vars

C16_Witness ==
    /\ last.op = "exportCards" /\ last.found
    /\ Len(cards) = 2
    /\ cards[1].type = "evento" /\ cards[2].type = "local"
    /\ currentFilter = "all"

\* C17: the collection is in insertion order after the cards list is
\* rendered: a step of the presentation layer that stores no card and deletes
\* none (a change of the filter of the cards list) leaves the collection, and
\* so what getAllCards and getCardsByType return, as it was.
C17_InsertionOrderKept ==
    [][last'.op = "setFilter" =>
          /\ cards' = cards
          /\ \A type \in Types : getCardsByType(cards', type) = getCardsByType(cards, type)]_vars

\* the documents that are read and are malformed
Malformed == {DocUnparseable, DocNoCards, DocNotArray}

\* C19: when the read of the file fails, the collection is left as it was, no
\* card is imported, and the notification shown is not the one shown for a
\* document that was read and is malformed.
C19_ReadFailure ==
    [][(last'.op = "importCards" /\ last'.doc.shape = "unreadable") =>
          /\ cards' = cards
          /\ last'.imported = 0
          /\ last'.toast # ""
          /\ \A doc \in Malformed :
                last'.toast # importOnload(cards, doc, idCount, now, currentFilter).toast]_vars

C19_Witness ==
    /\ last.op = "importCards" /\ last.doc.shape = "unreadable"
    /\ last.toast = "Erro ao ler o arquivo"
    /\ Len(cards) = 2

\* C20: the cards added by a successful import have ids that differ from one
\* another, whatever ids the cards of the document carry.
C20_ImportedIdsDistinct ==
    [][(last'.op = "importCards" /\ last'.toast = ToastImported) =>
          \A i, j \in 1..Len(cards') :
              (/\ cards'[i].id \notin Ids(cards)
               /\ cards'[j].id \notin Ids(cards)
               /\ cards'[i].id = cards'[j].id) => i = j]_vars

\* C21: with two imports triggered, the callback of a read that completes
\* with success puts the cards of its document after the cards that are
\* there, in document order and with ids that no card there has and that
\* differ from one another, and leaves the cards that are there as they were
\* (so the batch that completes first comes first and each batch stays
\* contiguous).
C21_ConcurrentImports ==
    [][(/\ last'.op = "importCards" /\ last'.toast = ToastImported
        /\ Len(reading) >= 2 /\ reading' # reading) =>
          LET items == last'.doc.items
              n == Len(cards)
          IN /\ Len(cards') = n + Len(items)
             /\ SubSeq(cards', 1, n) = cards
             /\ \A k \in 1..Len(items) :
                   /\ cards'[n + k].name = items[k].obj.name
                   /\ cards'[n + k].id \notin Ids(cards)
                   /\ \A j \in 1..Len(items) : cards'[n + j].id = cards'[n + k].id => j = k]_vars

\* the three notifications an import ends with
Outcomes == {ToastImported, ToastInvalid, ToastReadError}

\* C22: every import triggered ends, with exactly one of the three
\* notifications: its outcome becomes one of them, and once it is one it stays
\* that one; the success notification comes with the cards of the document
\* added, the read-failure notification with the collection as it was.
C22_ImportEnds ==
    /\ \A k \in 1..MaxReads :
          (Len(reading) >= k) ~> (Len(reading) >= k /\ reading[k].outcome \in Outcomes)
    /\ [][\A k \in 1..Len(reading) :
             /\ reading'[k].doc = reading[k].doc
             /\ reading[k].outcome # Pending => reading'[k].outcome = reading[k].outcome
             /\ reading'[k].outcome \in Outcomes \cup {Pending}
             /\ (reading[k].outcome = Pending /\ reading'[k].outcome = ToastImported)
                    => Len(cards') = Len(cards) + Len(reading[k].doc.items)
             /\ (reading[k].outcome = Pending /\ reading'[k].outcome = ToastReadError)
                    => cards' = cards]_vars

\* two imports have ended, one with cards added and one with the error of a
\* malformed document
C22_Witness ==
    /\ Len(reading) = 2
    /\ reading[1].outcome = ToastInvalid
    /\ reading[2].outcome = ToastImported
    /\ Len(cards) = 2

\* C23: getLastFromHistory returns the id pushed last among those still in
\* the history (ids are pushed in increasing order, so the greatest one) and
\* removes it and nothing else; on an empty history it returns none and the
\* history stays empty; the collection is never changed.
C23_Lifo ==
    [][last'.op = "getLastFromHistory" =>
          /\ cards' = cards
          /\ IF navigationHistory = <<>>
             THEN ~last'.found /\ last'.id = NoCard /\ navigationHistory' = <<>>
             ELSE /\ last'.found
                  /\ last'.id \in Range(navigationHistory)
                  /\ \A i \in 1..Len(navigationHistory) : navigationHistory[i] <= last'.id
                  /\ navigationHistory' =
                        SelectSeq(navigationHistory, LAMBDA x : x # last'.id)]_vars

\* the id pushed last was popped from a history that had discarded its oldest
\* id
C23_Witness ==
    /\ last.op = "getLastFromHistory"
    /\ last.found
    /\ last.id = idCount
    /\ idCount > HistoryCap
    /\ navigationHistory = [i \in 1..(HistoryCap - 1) |-> idCount - HistoryCap + i]

\* the order of the types the list is meant to have
typeRank(t) == CASE t = "evento" -> 0 [] t = "local" -> 1 [] OTHER -> 2

\* C24: the list rendered with the filter 'all' has every evento card before
\* every local card and every local card before every personagem card, and
\* the cards of one type in the order of their names.
C24_TypeOrder ==
    (last.op = "setFilter" /\ currentFilter = "all") =>
        \A i, j \in 1..Len(cards) :
            i < j => \/ typeRank(cards[i].type) < typeRank(cards[j].type)
                     \/ /\ cards[i].type = cards[j].type
                        /\ localeCompare(cards[i].name, cards[j].name) <= 0

\* C25: createFlipCard and editCard compute the same focal point for every
\* card; for a card with only the legacy imagePosition it is X = 50 and Y = 0
\* for "top", 100 for "bottom", the number for a number and 50 otherwise.
C25_SameFocalPoint ==
    last.op \in {"createFlipCard", "setCardImageData"} =>
        /\ createFlipCard(last.data) = editCardImage(last.data)
        /\ DOMAIN last.data = {"imagePosition"} =>
              last.ret = <<Num("50"),
                           CASE last.data.imagePosition = Str("top") -> Num("0")
                             [] last.data.imagePosition = Str("bottom") -> Num("100")
                             [] last.data.imagePosition.kind = "number" -> last.data.imagePosition
                             [] OTHER -> Num("50")>>

C27_StaleSubmit ==
    [][(last'.op = "handleFormSubmit" /\ last'.id # NoCard /\ ~last'.found) =>
          cards' = cards]_vars

\* C28: when the export of the repository is imported back into it, the k-th
\* new card is the copy of the k-th exported card, and where that card listed
\* the id of the j-th exported card the copy lists the id of the j-th new
\* card, which no card had before; every card that was there is still there
\* as it was and lists the id of no new card.
C28_ReimportDisjoint ==
    [][(last'.op = "importCards" /\ last'.doc.exported /\ last'.found) =>
          LET items == last'.doc.items
              copies == SelectSeq(cards', LAMBDA c : c.id \notin Ids(cards))
          IN /\ Len(copies) = Len(items)
             /\ \A k \in 1..Len(items) :
                   /\ copies[k].name = items[k].obj.name
                   /\ copies[k].type = items[k].obj.type
                   /\ \A f \in RefFields \cap DOMAIN items[k].obj :
                         /\ Len(copies[k][f]) = Len(items[k].obj[f])
                         /\ \A p \in 1..Len(items[k].obj[f]) : \A j \in 1..Len(items) :
                               items[k].obj[f][p] = items[j].obj.id =>
                                   copies[k][f][p] = copies[j].id
             /\ \A i \in 1..Len(cards) :
                   /\ Cardinality({j \in 1..Len(cards') : cards'[j] = cards[i]})
                        = Cardinality({j \in 1..Len(cards) : cards[j] = cards[i]})
                   /\ Refs(cards[i]) \cap Ids(copies) = {}]_vars

\* the two cards exported were imported back: the originals refer to each
\* other and the copies to each other
C28_Witness ==
    /\ last.op = "importCards"
    /\ last.doc.exported
    /\ last.found
    /\ Len(cards) = 4
    /\ LET exported == Ids([k \in 1..Len(last.doc.items) |-> last.doc.items[k].obj]) IN
       /\ \E i, j \in 1..4 : /\ {cards[i].id, cards[j].id} \subseteq exported
                             /\ cards[j].id \in Refs(cards[i])
       /\ \E i, j \in 1..4 : /\ {cards[i].id, cards[j].id} \cap exported = {}
                             /\ cards[j].id \in Refs(cards[i])

\* C29: openCard(cardId) for the id of a card of the collection opens that
\* card and, when a card was open, puts the id of that card, and only it, at
\* the end of the history; when no card was open the history stays as it was;
\* for an id of no card the history and the open card stay as they were.
C29_OpenCardPush ==
    [][last'.op = "openCard" =>
          IF last'.id \notin Ids(cards)
          THEN navigationHistory' = navigationHistory /\ currentCard' = currentCard
          ELSE /\ currentCard' = last'.id
               /\ navigationHistory' =
                     IF currentCard = NoCard THEN navigationHistory
                     ELSE LastN(Append(navigationHistory, currentCard), HistoryCap)]_vars

\* a second card was opened from the first: the history holds the first
C29_Witness ==
    /\ last.op = "openCard"
    /\ last.found
    /\ navigationHistory # <<>>
    /\ navigationHistory[Len(navigationHistory)] # currentCard
    /\ currentCard = last.id

\* the operations that write or read the collection
StoreOps == {"createCard", "updateCard", "deleteCard", "exportCards", "importCards"}

\* C30: createCard, updateCard, deleteCard, export and import leave the
\* navigation history as it was, so the id of a deleted card stays in it; the
\* history changes only where pushToHistory is called (openCard).
C30_HistoryFrame ==
    [][/\ last'.op \in StoreOps => navigationHistory' = navigationHistory
       /\ navigationHistory' # navigationHistory => last'.op = "openCard"]_vars

\* a card was deleted and its id is in the history
C30_Witness ==
    /\ last.op = "deleteCard"
    /\ last.found
    /\ last.id \notin Ids(cards)
    /\ last.id \in Range(navigationHistory)

====
